---- MODULE Spec2Model ----
(***************************************************************************)
(* A model of the ed2k crate (src/src/implementation.rs, src/src/lib.rs):  *)
(* the chunked streaming hasher Ed2kImpl<C> with its three finalization    *)
(* policies Red, Blue and RedBlue.                                         *)
(*                                                                         *)
(* The block digest (the md4 crate) is an external primitive.  It is       *)
(* modelled as a collision-free digest: a hasher is the content it has     *)
(* absorbed, a digest value is a term naming the content it was taken of.  *)
(* The chunk hasher absorbs data bytes only and the chunk-list hasher      *)
(* absorbs 16-byte digests only, so a content is a pair                    *)
(* (bytes, digests) of which at most one is non-empty; the digest of the   *)
(* empty byte sequence and of the empty digest list are the same value,    *)
(* as they are for MD4.                                                    *)
(***************************************************************************)
EXTENDS Integers, Sequences, FiniteSets, TLC

----------------------------------------------------------------------------
(* Bounds of the model. *)

\* The chunk size the model runs with.  The code's 9728000 only ever meets
\* chunk_len in a subtraction and an equality test, so the model scales it.
ChunkBytes == 2

\* The most bytes absorbed in one computation (between two resets).
MaxLen == 5

\* The most update calls in one computation.
MaxUpdates == 3

\* The most computations ended by a reset on one instance.
MaxComputations == 2

\* The most bytes absorbed in one computation of an instance that runs
\* beside another one.
MultiLen == 4

----------------------------------------------------------------------------
(* Constants and values. *)

CHUNK_SIZE == ChunkBytes

\* The byte values inputs are drawn from (the two the crate's tests use).
Byte == {0, 85}

Colors == {"Red", "Blue", "RedBlue"}

Min(a, b) == IF a <= b THEN a ELSE b

\* All byte sequences of length at most n.
ByteSeqs(n) == UNION {[1..k -> Byte] : k \in 0..n}

----------------------------------------------------------------------------
(* The block digest, md4::Md4. *)

\* Md4::default(): nothing absorbed.
Md4_default == [bytes |-> <<>>, digests |-> <<>>]

\* Md4::update with data bytes.
Md4_update(h, data) == [h EXCEPT !.bytes = @ \o data]

\* Md4::update with one 16-byte digest.
Md4_update_hash(h, hash) == [h EXCEPT !.digests = Append(@, hash)]

\* The digest of what the hasher absorbed (the value finalize writes).
Md4_digest(h) == [zero |-> FALSE, bytes |-> h.bytes, digests |-> h.digests]

\* Md4::reset.
Md4_reset(h) == Md4_default

\* GenericArray<u8, U16>::default(): sixteen zero bytes.
Array_default == [zero |-> TRUE, bytes |-> <<>>, digests |-> <<>>]

----------------------------------------------------------------------------
(* ChunkList *)

ChunkList_default ==
    [hasher |-> Md4_default, first_chunk |-> Array_default, chunk_counter |-> 0]

\* Faulty variants of ChunkList::add_chunk: one never counts the chunk, one
\* copies every chunk hash into first_chunk.
add_chunk_no_count(cl, hash) ==
    [hasher        |-> Md4_update_hash(cl.hasher, hash),
     first_chunk   |-> IF cl.chunk_counter = 0 THEN hash ELSE cl.first_chunk,
     chunk_counter |-> cl.chunk_counter]

add_chunk_overwrites_first(cl, hash) ==
    [hasher        |-> Md4_update_hash(cl.hasher, hash),
     first_chunk   |-> hash,
     chunk_counter |-> cl.chunk_counter + 1]

\* A faulty variant of ChunkList::add_chunk: the first chunk is kept in
\* first_chunk only and is not fed to the list hasher.
add_chunk_skips_first(cl, hash) ==
    [hasher        |-> IF cl.chunk_counter = 0 THEN cl.hasher
                       ELSE Md4_update_hash(cl.hasher, hash),
     first_chunk   |-> IF cl.chunk_counter = 0 THEN hash ELSE cl.first_chunk,
     chunk_counter |-> cl.chunk_counter + 1]

add_chunk(cl, hash) ==
    [hasher        |-> Md4_update_hash(cl.hasher, hash),
     first_chunk   |-> IF cl.chunk_counter = 0 THEN hash ELSE cl.first_chunk,
     chunk_counter |-> cl.chunk_counter + 1]

\* Faulty variants of ChunkList::reset: one forgets hasher.reset(), one
\* forgets first_chunk.fill(0).
ChunkList_reset_keeps_hasher(cl) ==
    [hasher        |-> cl.hasher,
     first_chunk   |-> Array_default,
     chunk_counter |-> 0]

ChunkList_reset_keeps_first_chunk(cl) ==
    [hasher        |-> Md4_reset(cl.hasher),
     first_chunk   |-> cl.first_chunk,
     chunk_counter |-> 0]

ChunkList_reset(cl) ==
    [hasher        |-> Md4_reset(cl.hasher),
     first_chunk   |-> Array_default,
     chunk_counter |-> 0]

\* The copy, and whether the debug assertion chunk_counter > 0 held.
copy_first_chunk(cl) ==
    [out |-> cl.first_chunk, assert_ok |-> cl.chunk_counter > 0]

\* Md4::finalize_into_reset on the list hasher.
copy_list_hash_reset(cl) ==
    [cl  |-> [cl EXCEPT !.hasher = Md4_reset(cl.hasher)],
     out |-> Md4_digest(cl.hasher)]

----------------------------------------------------------------------------
(* Ed2kState and Ed2kImpl *)

Ed2kImpl_default ==
    [chunk_hasher |-> Md4_default, chunk_len |-> 0, chunk_list |-> ChunkList_default]

\* A faulty variant of hash_chunk: the chunk hasher is finalized without
\* being reset, so the next chunk's digest covers the earlier chunks too.
hash_chunk_keeps_hasher(st) ==
    LET hash == Md4_digest(st.chunk_hasher)
    IN  [chunk_hasher |-> st.chunk_hasher,
         chunk_len    |-> 0,
         chunk_list   |-> add_chunk(st.chunk_list, hash)]

hash_chunk(st) ==
    LET hash == Md4_digest(st.chunk_hasher)
    IN  [chunk_hasher |-> Md4_reset(st.chunk_hasher),
         chunk_len    |-> 0,
         chunk_list   |-> add_chunk(st.chunk_list, hash)]

\* A faulty variant of the loop body of update: a chunk that the data fills
\* to its end is left pending and hashed when more data arrives.
update_step_lazy_hash(st, data) ==
    LET free           == CHUNK_SIZE - st.chunk_len
        data_write_len == Min(Len(data), free)
        data_write     == SubSeq(data, 1, data_write_len)
        rest           == SubSeq(data, data_write_len + 1, Len(data))
        st1 == [st EXCEPT !.chunk_hasher = Md4_update(@, data_write),
                          !.chunk_len    = @ + Len(data_write)]
    IN  [st   |-> IF st1.chunk_len = CHUNK_SIZE /\ rest # <<>>
                  THEN hash_chunk(st1) ELSE st1,
         data |-> rest]

\* A faulty variant of the loop body of update: the chunk is hashed after
\* every write, full or not.
update_step_always_hashes(st, data) ==
    LET free           == CHUNK_SIZE - st.chunk_len
        data_write_len == Min(Len(data), free)
        data_write     == SubSeq(data, 1, data_write_len)
        st1 == [st EXCEPT !.chunk_hasher = Md4_update(@, data_write),
                          !.chunk_len    = @ + Len(data_write)]
    IN  [st   |-> hash_chunk(st1),
         data |-> SubSeq(data, data_write_len + 1, Len(data))]

\* A faulty variant of the loop body of update: the free space is taken to
\* be a whole chunk, whatever chunk_len is.
update_step_free_whole(st, data) ==
    LET free           == CHUNK_SIZE
        data_write_len == Min(Len(data), free)
        data_write     == SubSeq(data, 1, data_write_len)
        st1 == [st EXCEPT !.chunk_hasher = Md4_update(@, data_write),
                          !.chunk_len    = @ + Len(data_write)]
    IN  [st   |-> IF st1.chunk_len = CHUNK_SIZE THEN hash_chunk(st1) ELSE st1,
         data |-> SubSeq(data, data_write_len + 1, Len(data))]

\* One iteration of the loop of update: the state and the data left.
update_step(st, data) ==
    LET free           == CHUNK_SIZE - st.chunk_len
        data_write_len == Min(Len(data), free)
        data_write     == SubSeq(data, 1, data_write_len)
        st1 == [st EXCEPT !.chunk_hasher = Md4_update(@, data_write),
                          !.chunk_len    = @ + Len(data_write)]
    IN  [st   |-> IF st1.chunk_len = CHUNK_SIZE THEN hash_chunk(st1) ELSE st1,
         data |-> SubSeq(data, data_write_len + 1, Len(data))]

RECURSIVE update(_, _)
update(st, data) ==
    IF data = <<>> THEN st
    ELSE LET s == update_step(st, data) IN update(s.st, s.data)

\* A faulty variant of Ed2kImpl::reset: chunk_hasher.reset() is forgotten.
Ed2kImpl_reset_keeps_chunk_hasher(st) ==
    [chunk_hasher |-> st.chunk_hasher,
     chunk_len    |-> 0,
     chunk_list   |-> ChunkList_reset(st.chunk_list)]

Ed2kImpl_reset(st) ==
    [chunk_hasher |-> Md4_reset(st.chunk_hasher),
     chunk_len    |-> 0,
     chunk_list   |-> ChunkList_reset(st.chunk_list)]

----------------------------------------------------------------------------
(* The finalization policies.  Each gives the state it leaves, the output  *)
(* as a sequence of 16-byte blocks, and whether every debug assertion held.*)

\* Faulty variants of Red's finalize_ref: one without the simple case (the
\* list hash is taken of a sub-chunk input too), one that adds no empty
\* chunk when the input ends on a chunk boundary.
finalize_ref_Red_always_list(st) ==
    LET s1 == hash_chunk(st)
        c  == copy_list_hash_reset(s1.chunk_list)
    IN  [state     |-> [s1 EXCEPT !.chunk_list = c.cl],
         out       |-> <<c.out>>,
         assert_ok |-> TRUE]

finalize_ref_Red_skips_empty(st) ==
    IF st.chunk_list.chunk_counter = 0
    THEN LET s1 == hash_chunk(st)
             c  == copy_first_chunk(s1.chunk_list)
         IN  [state |-> s1, out |-> <<c.out>>, assert_ok |-> c.assert_ok]
    ELSE LET s1 == IF st.chunk_len # 0 THEN hash_chunk(st) ELSE st
             c  == copy_list_hash_reset(s1.chunk_list)
         IN  [state     |-> [s1 EXCEPT !.chunk_list = c.cl],
              out       |-> <<c.out>>,
              assert_ok |-> TRUE]

finalize_ref_Red(st) ==
    IF st.chunk_list.chunk_counter = 0
    THEN LET s1 == hash_chunk(st)
             c  == copy_first_chunk(s1.chunk_list)
         IN  [state |-> s1, out |-> <<c.out>>, assert_ok |-> c.assert_ok]
    ELSE LET s1 == hash_chunk(st)
             c  == copy_list_hash_reset(s1.chunk_list)
         IN  [state     |-> [s1 EXCEPT !.chunk_list = c.cl],
              out       |-> <<c.out>>,
              assert_ok |-> TRUE]

\* Faulty variants of Blue's finalize_ref: one without the common case (a
\* trailing partial chunk is left out), one without the single-chunk case
\* (the list hash is taken of one chunk too), one that hashes the empty
\* trailing chunk as Red does.
finalize_ref_Blue_no_partial(st) ==
    IF st.chunk_list.chunk_counter = 0
    THEN LET s1 == hash_chunk(st)
             c  == copy_first_chunk(s1.chunk_list)
         IN  [state |-> s1, out |-> <<c.out>>, assert_ok |-> c.assert_ok]
    ELSE IF st.chunk_list.chunk_counter = 1
    THEN LET c == copy_first_chunk(st.chunk_list)
         IN  [state |-> st, out |-> <<c.out>>, assert_ok |-> c.assert_ok]
    ELSE LET c == copy_list_hash_reset(st.chunk_list)
         IN  [state     |-> [st EXCEPT !.chunk_list = c.cl],
              out       |-> <<c.out>>,
              assert_ok |-> TRUE]

finalize_ref_Blue_always_list(st) ==
    IF st.chunk_list.chunk_counter = 0
    THEN LET s1 == hash_chunk(st)
             c  == copy_first_chunk(s1.chunk_list)
         IN  [state |-> s1, out |-> <<c.out>>, assert_ok |-> c.assert_ok]
    ELSE IF st.chunk_len # 0
    THEN LET s1 == hash_chunk(st)
             c  == copy_list_hash_reset(s1.chunk_list)
         IN  [state     |-> [s1 EXCEPT !.chunk_list = c.cl],
              out       |-> <<c.out>>,
              assert_ok |-> TRUE]
    ELSE LET c == copy_list_hash_reset(st.chunk_list)
         IN  [state     |-> [st EXCEPT !.chunk_list = c.cl],
              out       |-> <<c.out>>,
              assert_ok |-> TRUE]

finalize_ref_Blue_adds_empty(st) ==
    IF st.chunk_list.chunk_counter = 0
    THEN LET s1 == hash_chunk(st)
             c  == copy_first_chunk(s1.chunk_list)
         IN  [state |-> s1, out |-> <<c.out>>, assert_ok |-> c.assert_ok]
    ELSE LET s1 == hash_chunk(st)
             c  == copy_list_hash_reset(s1.chunk_list)
         IN  [state     |-> [s1 EXCEPT !.chunk_list = c.cl],
              out       |-> <<c.out>>,
              assert_ok |-> TRUE]

\* A faulty variant of Blue's finalize_ref: in the simple case the first
\* chunk is copied out before the chunk was hashed into the list.
finalize_ref_Blue_copies_unhashed(st) ==
    IF st.chunk_list.chunk_counter = 0
    THEN LET c  == copy_first_chunk(st.chunk_list)
             s1 == hash_chunk(st)
         IN  [state |-> s1, out |-> <<c.out>>, assert_ok |-> c.assert_ok]
    ELSE IF st.chunk_len # 0
    THEN LET s1 == hash_chunk(st)
             c  == copy_list_hash_reset(s1.chunk_list)
         IN  [state     |-> [s1 EXCEPT !.chunk_list = c.cl],
              out       |-> <<c.out>>,
              assert_ok |-> TRUE]
    ELSE IF st.chunk_list.chunk_counter = 1
    THEN LET c == copy_first_chunk(st.chunk_list)
         IN  [state |-> st, out |-> <<c.out>>, assert_ok |-> c.assert_ok]
    ELSE LET c == copy_list_hash_reset(st.chunk_list)
         IN  [state     |-> [st EXCEPT !.chunk_list = c.cl],
              out       |-> <<c.out>>,
              assert_ok |-> TRUE]

finalize_ref_Blue(st) ==
    IF st.chunk_list.chunk_counter = 0
    THEN LET s1 == hash_chunk(st)
             c  == copy_first_chunk(s1.chunk_list)
         IN  [state |-> s1, out |-> <<c.out>>, assert_ok |-> c.assert_ok]
    ELSE IF st.chunk_len # 0
    THEN LET s1 == hash_chunk(st)
             c  == copy_list_hash_reset(s1.chunk_list)
         IN  [state     |-> [s1 EXCEPT !.chunk_list = c.cl],
              out       |-> <<c.out>>,
              assert_ok |-> TRUE]
    ELSE IF st.chunk_list.chunk_counter = 1
    THEN LET c == copy_first_chunk(st.chunk_list)
         IN  [state |-> st, out |-> <<c.out>>, assert_ok |-> c.assert_ok]
    ELSE LET c == copy_list_hash_reset(st.chunk_list)
         IN  [state     |-> [st EXCEPT !.chunk_list = c.cl],
              out       |-> <<c.out>>,
              assert_ok |-> TRUE]

\* A faulty variant of RedBlue's finalize_ref: the Blue half is taken of the
\* chunk list itself, not of a clone, which resets the list hasher before
\* the Red half is computed.
finalize_ref_RedBlue_no_clone(st) ==
    IF st.chunk_list.chunk_counter = 0
    THEN LET s1 == hash_chunk(st)
             c  == copy_first_chunk(s1.chunk_list)
         IN  [state |-> s1, out |-> <<c.out, c.out>>, assert_ok |-> c.assert_ok]
    ELSE IF st.chunk_len # 0
    THEN LET s1 == hash_chunk(st)
             c  == copy_list_hash_reset(s1.chunk_list)
         IN  [state     |-> [s1 EXCEPT !.chunk_list = c.cl],
              out       |-> <<c.out, c.out>>,
              assert_ok |-> TRUE]
    ELSE LET one  == st.chunk_list.chunk_counter = 1
             b1   == copy_first_chunk(st.chunk_list)
             b2   == copy_list_hash_reset(st.chunk_list)
             blue == IF one THEN b1.out ELSE b2.out
             s0   == IF one THEN st ELSE [st EXCEPT !.chunk_list = b2.cl]
             s1   == hash_chunk(s0)
             r    == copy_list_hash_reset(s1.chunk_list)
         IN  [state     |-> [s1 EXCEPT !.chunk_list = r.cl],
              out       |-> <<r.out, blue>>,
              assert_ok |-> IF one THEN b1.assert_ok ELSE TRUE]

\* out.split_at_mut(16): red_out is the first block, blue_out the second.
finalize_ref_RedBlue(st) ==
    IF st.chunk_list.chunk_counter = 0
    THEN LET s1 == hash_chunk(st)
             c  == copy_first_chunk(s1.chunk_list)
         IN  [state |-> s1, out |-> <<c.out, c.out>>, assert_ok |-> c.assert_ok]
    ELSE IF st.chunk_len # 0
    THEN LET s1 == hash_chunk(st)
             c  == copy_list_hash_reset(s1.chunk_list)
         IN  [state     |-> [s1 EXCEPT !.chunk_list = c.cl],
              out       |-> <<c.out, c.out>>,
              assert_ok |-> TRUE]
    ELSE LET one  == st.chunk_list.chunk_counter = 1
             b1   == copy_first_chunk(st.chunk_list)
             \* the clone is finalized and dropped; st.chunk_list is not touched
             b2   == copy_list_hash_reset(st.chunk_list)
             blue == IF one THEN b1.out ELSE b2.out
             s1   == hash_chunk(st)
             r    == copy_list_hash_reset(s1.chunk_list)
         IN  [state     |-> [s1 EXCEPT !.chunk_list = r.cl],
              out       |-> <<r.out, blue>>,
              assert_ok |-> IF one THEN b1.assert_ok ELSE TRUE]

\* C::finalize_ref, by the color the instance was built with.
finalize_ref(c, st) ==
    CASE c = "Red"     -> finalize_ref_Red(st)
      [] c = "Blue"    -> finalize_ref_Blue(st)
      [] c = "RedBlue" -> finalize_ref_RedBlue(st)

\* The consuming finalize: the instance is dropped afterwards.
finalize_into(c, st) == finalize_ref(c, st)

\* A faulty variant of finalize_into_reset: the reset comes first.
finalize_into_reset_resets_first(c, st) ==
    finalize_ref(c, Ed2kImpl_reset(st))

finalize_into_reset(c, st) ==
    LET r == finalize_ref(c, st)
    IN  [r EXCEPT !.state = Ed2kImpl_reset(r.state)]

\* Digest::digest: construct, one update, consuming finalize.
digest(c, data) == finalize_into(c, update(Ed2kImpl_default, data)).out

----------------------------------------------------------------------------
(* The state machine: one hasher instance and its caller. *)

VARIABLES
    color,         \* the type parameter C of the instance
    live,          \* FALSE once a consuming finalize dropped the instance
    state,         \* Ed2kImpl::state
    absorbed,      \* the bytes absorbed since construction or the last reset
    nUpdates,      \* the update calls since construction or the last reset
    prev,          \* how the computation before this one ended, and its length class
    computations,  \* computations ended by a reset since construction
    lastOp,        \* the last call made
    res,           \* what the last call returned, if it was a finalize
    panicked,      \* a debug assertion failed
    insts          \* further hasher instances, each run by a thread of its own

vars == <<color, live, state, absorbed, nUpdates, prev, computations,
          lastOp, res, panicked, insts>>

\* The variables of the one instance the single-instance actions work on.
hasherVars == <<color, live, state, absorbed, nUpdates, prev, computations,
                lastOp, res, panicked>>

\* The length classes of an input.
ClassOf(n) ==
    IF n = 0 THEN "empty"
    ELSE IF n < CHUNK_SIZE THEN "sub"
    ELSE IF n % CHUNK_SIZE = 0 THEN "exact"
    ELSE "partial"

NoPrev == [via |-> "none", class |-> "none"]

NoRes == [out |-> <<>>, input |-> <<>>, updates |-> 0, prev |-> NoPrev, preceding |-> 0]

ResOf(r) ==
    [out |-> r.out, input |-> absorbed, updates |-> nUpdates,
     prev |-> prev, preceding |-> computations]

\* The instances that threads of their own work on, and the byte value
\* each one is fed (different values, so that bytes of one instance showing
\* up in another are seen).
Inst == {1, 2}

InstByte(i) == IF i = 1 THEN 0 ELSE 85

\* No update call made yet: the call record holds chunk_len and
\* chunk_counter as the call found them, the length of its data and the
\* loop iterations it has run.
NoCall == [chunk_len |-> 0, chunk_counter |-> 0, len |-> 0, iterations |-> 0]

\* An instance as Ed2kImpl::<C>::default() builds it, its thread idle.
FreshInst(c) ==
    [color    |-> c,
     pc       |-> "idle",
     state    |-> Ed2kImpl_default,
     absorbed |-> <<>>,
     pending  |-> <<>>,
     call     |-> NoCall,
     out      |-> <<>>,
     input    |-> <<>>,
     panicked |-> FALSE]

\* A faulty variant of the store through &mut self: the chunk list is one
\* object shared by all instances.
with_self_shared_list(all, i, inst) ==
    [j \in DOMAIN all |->
        IF j = i THEN inst
        ELSE [all[j] EXCEPT !.state.chunk_list = inst.state.chunk_list]]

\* A method's writes through &mut self: they reach the one instance the
\* method was called on (every field of Ed2kImpl is owned by value).
with_self(all, i, inst) == [all EXCEPT ![i] = inst]

Init ==
    /\ color \in Colors
    /\ live = TRUE
    /\ state = Ed2kImpl_default
    /\ absorbed = <<>>
    /\ nUpdates = 0
    /\ prev = NoPrev
    /\ computations = 0
    /\ lastOp = "new"
    /\ res = NoRes
    /\ panicked = FALSE
    /\ insts = [i \in Inst |-> FreshInst("Red")]

\* Ed2kImpl::<C>::default()
New(c) ==
    /\ ~panicked
    /\ color' = c
    /\ live' = TRUE
    /\ state' = Ed2kImpl_default
    /\ absorbed' = <<>>
    /\ nUpdates' = 0
    /\ prev' = NoPrev
    /\ computations' = 0
    /\ lastOp' = "new"
    /\ res' = NoRes
    /\ UNCHANGED <<panicked, insts>>

Update(data) ==
    /\ live /\ ~panicked
    /\ nUpdates < MaxUpdates
    /\ Len(absorbed) + Len(data) <= MaxLen
    /\ state' = update(state, data)
    /\ absorbed' = absorbed \o data
    /\ nUpdates' = nUpdates + 1
    /\ lastOp' = "update"
    /\ res' = NoRes
    /\ UNCHANGED <<color, live, prev, computations, panicked, insts>>

FinalizeInto ==
    /\ live /\ ~panicked
    /\ LET r == finalize_into(color, state)
       IN  /\ state' = r.state
           /\ res' = ResOf(r)
           /\ panicked' = ~r.assert_ok
    /\ live' = FALSE
    /\ absorbed' = <<>>
    /\ nUpdates' = 0
    /\ lastOp' = "finalize_into"
    /\ UNCHANGED <<color, prev, computations, insts>>

FinalizeIntoReset ==
    /\ live /\ ~panicked
    /\ computations < MaxComputations
    /\ LET r == finalize_into_reset(color, state)
       IN  /\ state' = r.state
           /\ res' = ResOf(r)
           /\ panicked' = ~r.assert_ok
    /\ prev' = [via |-> "finalize_into_reset", class |-> ClassOf(Len(absorbed))]
    /\ computations' = computations + 1
    /\ absorbed' = <<>>
    /\ nUpdates' = 0
    /\ lastOp' = "finalize_into_reset"
    /\ UNCHANGED <<color, live, insts>>

Reset ==
    /\ live /\ ~panicked
    /\ computations < MaxComputations
    /\ state' = Ed2kImpl_reset(state)
    /\ prev' = [via |-> "reset", class |-> ClassOf(Len(absorbed))]
    /\ computations' = computations + 1
    /\ absorbed' = <<>>
    /\ nUpdates' = 0
    /\ lastOp' = "reset"
    /\ res' = NoRes
    /\ UNCHANGED <<color, live, panicked, insts>>

Next ==
    \/ \E c \in Colors : New(c)
    \/ \E data \in ByteSeqs(MaxLen) : Update(data)
    \/ FinalizeInto
    \/ FinalizeIntoReset
    \/ Reset

Spec == Init /\ [][Next]_vars

----------------------------------------------------------------------------
(* Several instances, each worked on by a thread of its own.  A call of    *)
(* update runs its loop one iteration at a time, so that the iterations of *)
(* calls on different instances interleave.                                *)

\* Ed2kImpl::<C>::default(), replacing instance i.
InstNew(i, c) ==
    /\ insts[i].pc = "idle" /\ ~insts[i].panicked
    /\ insts' = with_self(insts, i, FreshInst(c))
    /\ UNCHANGED hasherVars

\* update(data) is entered with n bytes of data.
InstUpdateCall(i, n) ==
    /\ insts[i].pc = "idle" /\ ~insts[i].panicked
    /\ Len(insts[i].absorbed) + n <= MultiLen
    /\ insts' = with_self(insts, i,
           [insts[i] EXCEPT
               !.pc      = "update",
               !.pending = [k \in 1..n |-> InstByte(i)],
               !.call    = [chunk_len     |-> insts[i].state.chunk_len,
                            chunk_counter |-> insts[i].state.chunk_list.chunk_counter,
                            len           |-> n,
                            iterations    |-> 0],
               !.out     = <<>>,
               !.input   = <<>>])
    /\ UNCHANGED hasherVars

\* One iteration of the loop: while !data.is_empty() { ... }
InstUpdateStep(i) ==
    /\ insts[i].pc = "update"
    /\ insts[i].pending # <<>>
    /\ LET s    == update_step(insts[i].state, insts[i].pending)
           done == Len(insts[i].pending) - Len(s.data)
       IN  insts' = with_self(insts, i,
               [insts[i] EXCEPT
                   !.state    = s.st,
                   !.pending  = s.data,
                   !.absorbed = @ \o SubSeq(insts[i].pending, 1, done),
                   !.call.iterations = @ + 1])
    /\ UNCHANGED hasherVars

\* The loop condition fails and update returns.
InstUpdateReturn(i) ==
    /\ insts[i].pc = "update"
    /\ insts[i].pending = <<>>
    /\ insts' = with_self(insts, i, [insts[i] EXCEPT !.pc = "idle"])
    /\ UNCHANGED hasherVars

InstFinalizeIntoReset(i) ==
    /\ insts[i].pc = "idle" /\ ~insts[i].panicked
    /\ LET r == finalize_into_reset(insts[i].color, insts[i].state)
       IN  insts' = with_self(insts, i,
               [insts[i] EXCEPT
                   !.state    = r.state,
                   !.out      = r.out,
                   !.input    = insts[i].absorbed,
                   !.absorbed = <<>>,
                   !.call     = NoCall,
                   !.panicked = ~r.assert_ok])
    /\ UNCHANGED hasherVars

InstReset(i) ==
    /\ insts[i].pc = "idle" /\ ~insts[i].panicked
    /\ insts' = with_self(insts, i,
           [insts[i] EXCEPT
               !.state    = Ed2kImpl_reset(insts[i].state),
               !.out      = <<>>,
               !.input    = <<>>,
               !.absorbed = <<>>,
               !.call     = NoCall])
    /\ UNCHANGED hasherVars

MultiInit == Init /\ color = "Red"

MultiNext ==
    \/ \E i \in Inst, c \in Colors : InstNew(i, c)
    \/ \E i \in Inst, n \in 0..MultiLen : InstUpdateCall(i, n)
    \/ \E i \in Inst : InstUpdateStep(i)
    \/ \E i \in Inst : InstUpdateReturn(i)
    \/ \E i \in Inst : InstFinalizeIntoReset(i)
    \/ \E i \in Inst : InstReset(i)

SpecMulti == MultiInit /\ [][MultiNext]_vars

\* A thread inside update keeps running: the loop's next iteration, or its
\* return, is taken.
MultiFairness ==
    \A i \in Inst : WF_vars(InstUpdateStep(i) \/ InstUpdateReturn(i))

SpecMultiFair == SpecMulti /\ MultiFairness

----------------------------------------------------------------------------
(* What the properties below are stated in: the chunks of an input and     *)
(* the digests taken of them, written down from the input alone.           *)

IsFinalize == lastOp \in {"finalize_into", "finalize_into_reset"}

\* The number of full chunks of S, its i-th full chunk, and what follows them.
NumFull(S) == Len(S) \div CHUNK_SIZE

FullChunk(S, i) == SubSeq(S, (i - 1) * CHUNK_SIZE + 1, i * CHUNK_SIZE)

Trailing(S) == SubSeq(S, NumFull(S) * CHUNK_SIZE + 1, Len(S))

\* The block digest of a byte sequence, and of a concatenation of digests.
BlockDigest(b) == [zero |-> FALSE, bytes |-> b, digests |-> <<>>]

ListDigest(ds) == [zero |-> FALSE, bytes |-> <<>>, digests |-> ds]

\* The digests of the full chunks of S, in order.
FullDigests(S) == [i \in 1..NumFull(S) |-> BlockDigest(FullChunk(S, i))]

\* A 16-byte value as the output of a color: once, or in both halves.
OutOf(c, d) == IF c = "RedBlue" THEN <<d, d>> ELSE <<d>>

----------------------------------------------------------------------------
(* C1  Split-invariance.  On a fresh hasher of any color, whatever the     *)
(* pieces the input arrived in (empty ones, ones that span chunk           *)
(* boundaries), the state before finalize is the state one update call     *)
(* with the whole input gives a fresh hasher, and the finalized output is  *)
(* the output of that one-call computation.                                *)
SplitInvariance ==
    /\ (live /\ computations = 0) =>
           state = update(Ed2kImpl_default, absorbed)
    /\ (IsFinalize /\ res.preceding = 0) =>
           res.out = digest(color, res.input)

\* A fresh hasher finalized after two or more pieces that made up more than
\* two chunks (so that a piece spanned a chunk boundary).
SplitInvarianceWitness ==
    /\ IsFinalize
    /\ res.preceding = 0
    /\ res.updates >= 2
    /\ Len(res.input) > 2 * CHUNK_SIZE

(* C2  Reset correctness.  A computation that follows finalize_into_reset  *)
(* on the same instance gives the output a fresh hasher gives for its      *)
(* input, whatever was hashed before and however many computations ran.    *)
ResetCorrectness ==
    (IsFinalize /\ res.prev.via = "finalize_into_reset") =>
        res.out = digest(color, res.input)

\* A Blue hasher, two computations done, the last one an exact multiple of
\* the chunk size ended by finalize_into_reset, then two chunks or more.
ResetCorrectnessWitness ==
    /\ IsFinalize
    /\ color = "Blue"
    /\ res.prev = [via |-> "finalize_into_reset", class |-> "exact"]
    /\ res.preceding = 2
    /\ Len(res.input) >= 2 * CHUNK_SIZE

(* C3  The RedBlue output is the Red output of the same input followed by  *)
(* the Blue output of it, for every length class of the input.             *)
RedBlueIsRedThenBlue ==
    (IsFinalize /\ color = "RedBlue") =>
        res.out = digest("Red", res.input) \o digest("Blue", res.input)

\* RedBlue finalized on two or more chunks exactly: the Blue half comes
\* from the clone of the chunk list, the Red half from the list itself.
RedBlueIsRedThenBlueWitness ==
    /\ IsFinalize
    /\ color = "RedBlue"
    /\ Len(res.input) >= 2 * CHUNK_SIZE
    /\ ClassOf(Len(res.input)) = "exact"

(* C4  Sub-chunk agreement.  For an input shorter than a chunk (the empty  *)
(* one too) Red, Blue and both halves of RedBlue are the block digest of   *)
(* the input itself; no list hashing is applied.                           *)
SubChunkAgreement ==
    (IsFinalize /\ Len(res.input) < CHUNK_SIZE) =>
        LET d == BlockDigest(res.input)
        IN  /\ res.out = OutOf(color, d)
            /\ \A c \in Colors : digest(c, res.input) = OutOf(c, d)

\* A non-empty input shorter than a chunk was finalized.
SubChunkAgreementWitness ==
    /\ IsFinalize
    /\ Len(res.input) > 0
    /\ Len(res.input) < CHUNK_SIZE

(* C5  Trailing-partial agreement.  For an input of n >= 1 full chunks and *)
(* a non-empty partial chunk, Red, Blue and both halves of RedBlue are the *)
(* block digest of the n + 1 chunk digests in order.                       *)
TrailingPartialAgreement ==
    (IsFinalize /\ ClassOf(Len(res.input)) = "partial") =>
        LET S == res.input
            d == ListDigest(Append(FullDigests(S), BlockDigest(Trailing(S))))
        IN  /\ res.out = OutOf(color, d)
            /\ \A c \in Colors : digest(c, S) = OutOf(c, d)

\* Blue finalized on two full chunks and a partial one.
TrailingPartialAgreementWitness ==
    /\ IsFinalize
    /\ color = "Blue"
    /\ ClassOf(Len(res.input)) = "partial"
    /\ NumFull(res.input) >= 2

(* C6  Red at a chunk boundary.  For an input of n >= 1 full chunks and    *)
(* nothing more, Red is the block digest of the n chunk digests followed   *)
(* by the digest of the empty byte sequence.                               *)
RedAtChunkBoundary ==
    (IsFinalize /\ ClassOf(Len(res.input)) = "exact") =>
        LET S == res.input
            d == ListDigest(Append(FullDigests(S), BlockDigest(<<>>)))
        IN  /\ color = "Red" => res.out = <<d>>
            /\ digest("Red", S) = <<d>>

\* Red finalized on exactly one chunk.
RedAtChunkBoundaryWitness ==
    /\ IsFinalize
    /\ color = "Red"
    /\ Len(res.input) = CHUNK_SIZE

(* C7  Blue at a chunk boundary.  For an input of n >= 1 full chunks and   *)
(* nothing more, Blue adds no empty chunk: for n = 1 it is the digest of   *)
(* the chunk, for n >= 2 the block digest of the n chunk digests.          *)
BlueAtChunkBoundary ==
    (IsFinalize /\ ClassOf(Len(res.input)) = "exact") =>
        LET S == res.input
            d == IF NumFull(S) = 1 THEN BlockDigest(S)
                                   ELSE ListDigest(FullDigests(S))
        IN  /\ color = "Blue" => res.out = <<d>>
            /\ digest("Blue", S) = <<d>>

\* Blue finalized on two or more chunks exactly.
BlueAtChunkBoundaryWitness ==
    /\ IsFinalize
    /\ color = "Blue"
    /\ ClassOf(Len(res.input)) = "exact"
    /\ NumFull(res.input) >= 2

(* C8  Boundary divergence.  Red and Blue differ on an input if and only   *)
(* if its length is a positive exact multiple of the chunk size.           *)
BoundaryDivergence ==
    IsFinalize =>
        LET S     == res.input
            exact == Len(S) > 0 /\ Len(S) % CHUNK_SIZE = 0
        IN  /\ (digest("Red", S) # digest("Blue", S)) <=> exact
            /\ color = "Red"     => ((res.out # digest("Blue", S)) <=> exact)
            /\ color = "Blue"    => ((res.out # digest("Red", S)) <=> exact)
            /\ color = "RedBlue" => ((res.out[1] # res.out[2]) <=> exact)

\* RedBlue finalized on exactly one chunk, its halves differing.
BoundaryDivergenceWitness ==
    /\ IsFinalize
    /\ color = "RedBlue"
    /\ Len(res.input) = CHUNK_SIZE
    /\ res.out[1] # res.out[2]

(* C9  The consuming finalize and the resetting finalize write the same    *)
(* output from every state, and a computation of one update ended by       *)
(* finalize_into_reset gives the output of the one-shot digest.            *)
FinalizeFormsAgree ==
    /\ live => finalize_into(color, state).out
                   = finalize_into_reset(color, state).out
    /\ (lastOp = "finalize_into_reset" /\ res.preceding = 0 /\ res.updates = 1) =>
           res.out = digest(color, res.input)

\* A fresh hasher, one update of a chunk or more, then finalize_into_reset.
FinalizeFormsAgreeWitness ==
    /\ lastOp = "finalize_into_reset"
    /\ res.preceding = 0
    /\ res.updates = 1
    /\ Len(res.input) >= CHUNK_SIZE

(* C10  finalize_into_reset leaves the hasher equal to a freshly           *)
(* constructed one, from every finalize sub-case.                          *)
FinalizeResetLeavesFresh ==
    lastOp = "finalize_into_reset" =>
        /\ state = Ed2kImpl_default
        /\ state.chunk_len = 0
        /\ state.chunk_list.chunk_counter = 0
        /\ state.chunk_list.first_chunk = Array_default
        /\ state.chunk_hasher = Md4_default
        /\ state.chunk_list.hasher = Md4_default

\* Blue reset by finalize_into_reset on exactly one chunk, the sub-case
\* that copies the first chunk and does not consume the list hasher.
FinalizeResetLeavesFreshWitness ==
    /\ lastOp = "finalize_into_reset"
    /\ color = "Blue"
    /\ Len(res.input) = CHUNK_SIZE

(* C11  Finalize is total.  From every state that update,                  *)
(* finalize_into_reset and reset lead to, finalize of every color gives an *)
(* output and no debug assertion fails: copy_first_chunk is only ever      *)
(* called with chunk_counter > 0.                                          *)
FinalizeIsTotal ==
    /\ ~panicked
    /\ live => /\ finalize_ref(color, state).assert_ok
               /\ Len(finalize_ref(color, state).out) =
                      (IF color = "RedBlue" THEN 2 ELSE 1)
    /\ IsFinalize => Len(res.out) = (IF color = "RedBlue" THEN 2 ELSE 1)

\* Blue finalized on exactly one chunk (where copy_first_chunk is called
\* without a chunk being hashed first), on an instance that was reset before.
FinalizeIsTotalWitness ==
    /\ IsFinalize
    /\ ~panicked
    /\ color = "Blue"
    /\ res.preceding >= 1
    /\ Len(res.input) = CHUNK_SIZE

\* The hashes of the chunks an input is split into, the last one possibly
\* shorter; and the same with the empty rest of an input that ends on a
\* chunk boundary counted as one more chunk.
ChunkHashes(S) ==
    IF Trailing(S) = <<>> THEN FullDigests(S)
    ELSE Append(FullDigests(S), BlockDigest(Trailing(S)))

ChunkHashesWithRest(S) == Append(FullDigests(S), BlockDigest(Trailing(S)))

ChunkBookkeeping ==
    live =>
        LET N == Len(absorbed)
        IN  /\ state.chunk_len = N % CHUNK_SIZE
            /\ state.chunk_list.chunk_counter = N \div CHUNK_SIZE
            /\ 0 <= state.chunk_len /\ state.chunk_len < CHUNK_SIZE
            /\ CHUNK_SIZE - state.chunk_len >= 1
            /\ (N > 0 /\ N % CHUNK_SIZE = 0) =>
                   (state.chunk_len = 0 /\ state.chunk_list.chunk_counter >= 1)

\* After an update that brought the input to two chunks exactly.
ChunkBookkeepingWitness ==
    /\ live
    /\ lastOp = "update"
    /\ Len(absorbed) = 2 * CHUNK_SIZE
    /\ state.chunk_len = 0
    /\ state.chunk_list.chunk_counter = 2

(* C16  Chunk-list accumulator.  Between updates the chunk-list hasher has *)
(* consumed exactly chunk_counter digests: those of the 1st, 2nd, ...      *)
(* CHUNK_SIZE-byte segments of the absorbed input, in order, nothing else. *)
ChunkListAccumulator ==
    live =>
        /\ state.chunk_list.hasher.bytes = <<>>
        /\ state.chunk_list.hasher.digests = FullDigests(absorbed)
        /\ Len(state.chunk_list.hasher.digests) = state.chunk_list.chunk_counter

\* Two chunks of different content and a partial one were absorbed.
ChunkListAccumulatorWitness ==
    /\ live
    /\ lastOp = "update"
    /\ NumFull(absorbed) = 2
    /\ FullChunk(absorbed, 1) # FullChunk(absorbed, 2)
    /\ Trailing(absorbed) # <<>>

(* C17  First-chunk digest.  Once chunk_counter >= 1, first_chunk is the   *)
(* digest of the first CHUNK_SIZE bytes of the input, whatever was         *)
(* absorbed after them; before that, and after a reset, it is all zero.    *)
FirstChunkDigest ==
    live =>
        IF state.chunk_list.chunk_counter >= 1
        THEN state.chunk_list.first_chunk = BlockDigest(FullChunk(absorbed, 1))
        ELSE state.chunk_list.first_chunk = Array_default

\* A second chunk, different from the first, was completed by a later update.
FirstChunkDigestWitness ==
    /\ live
    /\ nUpdates >= 2
    /\ state.chunk_list.chunk_counter >= 2
    /\ FullChunk(absorbed, 1) # FullChunk(absorbed, 2)

(* C18  Frame of update.  An update whose bytes do not bring chunk_len up  *)
(* to CHUNK_SIZE leaves the chunk list (chunk_counter, first_chunk, list   *)
(* hasher) as it was and changes only the chunk hasher and chunk_len; an   *)
(* update with no bytes leaves the whole state as it was.                  *)
UpdateFrame ==
    [][ (lastOp' = "update" /\ nUpdates' = nUpdates + 1) =>
            LET n    == Len(absorbed') - Len(absorbed)
                data == SubSeq(absorbed', Len(absorbed) + 1, Len(absorbed'))
            IN  /\ (state.chunk_len + n < CHUNK_SIZE) =>
                       /\ state'.chunk_list = state.chunk_list
                       /\ state'.chunk_len = state.chunk_len + n
                       /\ state'.chunk_hasher.bytes = state.chunk_hasher.bytes \o data
                /\ (n = 0) => state' = state
      ]_vars

\* The only update of a fresh hasher brought fewer bytes than a chunk, and
\* the chunk list is as constructed.
UpdateFrameWitness ==
    /\ lastOp = "update"
    /\ nUpdates = 1
    /\ computations = 0
    /\ Len(absorbed) > 0
    /\ Len(absorbed) < CHUNK_SIZE
    /\ state.chunk_list = ChunkList_default

(* C20  Reset without finalize.  reset() in any state discards what was    *)
(* absorbed: the state is that of a freshly constructed hasher, and the    *)
(* computation that follows gives the output of a fresh hasher.            *)
ResetDiscards ==
    /\ lastOp = "reset" => state = Ed2kImpl_default
    /\ (IsFinalize /\ res.prev.via = "reset") =>
           res.out = digest(color, res.input)

\* reset() was called with full chunks and a partial one absorbed, and a
\* computation of a chunk or more followed.
ResetDiscardsWitness ==
    /\ IsFinalize
    /\ res.prev = [via |-> "reset", class |-> "partial"]
    /\ Len(res.input) >= CHUNK_SIZE

\* Instance i is as it would be had its own operations run alone: its state
\* is that of one update of a fresh hasher with the bytes it absorbed, and
\* its output the digest of its own input.
SoloRun(i) ==
    LET x == insts[i]
    IN  /\ x.state = update(Ed2kImpl_default, x.absorbed)
        /\ x.out # <<>> => x.out = digest(x.color, x.input)
        /\ \A k \in 1..Len(x.absorbed) : x.absorbed[k] = InstByte(i)
        /\ ~x.panicked

(* C13  Instance independence.  With the operations (and the loop          *)
(* iterations of update) of two instances interleaved in any order, every  *)
(* instance has the state and the outputs of its own operations run alone, *)
(* and no step changes more than the instance it is a step of.             *)
InstanceIndependence ==
    /\ [](\A i \in Inst : SoloRun(i))
    /\ [][\A i, j \in Inst :
             i # j => (insts'[i] = insts[i] \/ insts'[j] = insts[j])]_vars

\* Instance 1 holds the output of a chunk or more while instance 2, of
\* another color, a chunk behind it, is inside the loop of update.
InstanceIndependenceWitness ==
    /\ insts[1].out # <<>>
    /\ Len(insts[1].input) >= CHUNK_SIZE
    /\ insts[2].color # insts[1].color
    /\ insts[2].pc = "update"
    /\ insts[2].pending # <<>>
    /\ insts[2].state.chunk_list.chunk_counter >= 1

(* C19  Termination of update.  At every loop head the free space          *)
(* CHUNK_SIZE - chunk_len is at least 1, every iteration consumes at least *)
(* one byte, a call that is entered returns, and when it does it has       *)
(* completed floor((chunk_len before + len(data)) / CHUNK_SIZE) chunks.    *)
UpdateTerminates ==
    /\ [](\A i \in Inst :
            LET x == insts[i]
            IN  /\ (x.pc = "update" /\ x.pending # <<>>) =>
                       CHUNK_SIZE - x.state.chunk_len >= 1
                /\ x.call.iterations <= x.call.len
                /\ x.pending = <<>> =>
                       x.state.chunk_list.chunk_counter - x.call.chunk_counter
                           = (x.call.chunk_len + x.call.len) \div CHUNK_SIZE)
    /\ [][\A i \in Inst :
             insts'[i].call.iterations = insts[i].call.iterations + 1 =>
                 Len(insts'[i].pending) < Len(insts[i].pending)]_vars
    /\ \A i \in Inst : (insts[i].pc = "update") ~> (insts[i].pc = "idle")

\* A call entered in mid-chunk has returned after completing two chunks.
UpdateTerminatesWitness ==
    /\ insts[1].pc = "idle"
    /\ insts[1].call.chunk_len > 0
    /\ insts[1].call.iterations >= 2
    /\ insts[1].state.chunk_list.chunk_counter - insts[1].call.chunk_counter = 2

====
